---- MODULE Spec2Model ----
(***************************************************************************)
(* Cloud Lease Negotiator: the Exa MCP protocol client and its tools       *)
(* (src/src/tools/exa_search_tool.py), the pipeline router                 *)
(* (src/src/crew.py, src/app.py), the ledger tools (batch_tool.py,         *)
(* savings_tool.py) and the waste filter (filter_tool.py) as state         *)
(* machines.                                                               *)
(***************************************************************************)
EXTENDS Integers, Sequences, FiniteSets, TLC

(***************************************************************************)
(* Bounds of the model.                                                    *)
(***************************************************************************)
\* start() and call_tool() invocations in one behaviour: each may spawn a
\* child and takes request ids; stop() takes neither and is not counted
MaxOps == 2
\* notifications the children emit
MaxNoise == 1
\* lines a child's stdout pipe holds unread
MaxPipe == 1

\* phrases in a query
MaxPhrases == 2
\* records in the dataset
MaxVMs == 2
\* lines of the ledger beyond which log_one() is not called again
MaxLines == 3
\* requests sent through the client a thread has constructed
MaxUses == 2
\* names in the list a server reports
MaxTools == 2

\* threads that obtained the client through get_mcp_client()
Callers == {"c1"}
\* threads that call get_mcp_client() for the first time
Threads == {"t1", "t2", "t3"}
\* child processes: every operation spawns at most one
Pids == 1..MaxOps
\* self.process = None
None == 0

VARIABLES
    cred,             \* os.getenv("EXA_API_KEY") is set
    windows,          \* platform.system() == "Windows"
    process,          \* self.process: None or the pid of the Popen handle
    spawned,          \* number of children spawned so far
    alive,            \* alive[p]: child p has not exited (poll() is None)
    request_id,       \* self.request_id
    response_queue,   \* self.response_queue
    tools_available,  \* self.tools_available: None = [], p = the names child p listed
    inbox,            \* inbox[p]: requests written to child p's stdin, unanswered
    pipe,             \* pipe[p]: lines child p wrote to stdout, not yet read
    errbuf,           \* unread stderr of self.process: 0 none, 1 under 1000 chars, 2 more
    answeredInit,     \* the child self.process has replied to an initialize request
    noise,            \* unsolicited lines the children have emitted
    rd,               \* rd[k]: the reader thread started with child k
    pc,               \* pc[c]: where caller c is
    ctx,              \* ctx[c]: which _send_and_wait caller c is in
    nested,           \* nested[c]: start() was entered from call_tool()
    rid,              \* rid[c]: req_id of caller c's last _send_request
    result,           \* result[c]: what caller c's last finished operation returned
    ops,              \* start() and call_tool() invocations so far
    typed,            \* the phrases of the query, as typed
    user_query,       \* user_query: the text of the query
    crew,             \* the crew create_chat_crew built for user_query
    returned,         \* what run_crew_analysis returned for user_query
    dataset,          \* cloud_cluster_dataset.csv: its records, or Missing
    ledger,           \* output/savings_report.csv: its lines, or Absent
    out,              \* what the last ledger tool operation returned
    need,             \* (min_cpu, min_ram) passed to find_best_instance
    fit,              \* what find_best_instance returned for need
    command,          \* the command given to WasteFilterTool._run
    report,           \* what WasteFilterTool._run returned for command
    listed,           \* mcp.get_available_tools(): the names, in order
    answer,           \* what the last search or crawl did
    singleton,        \* ExaMCPClient._instance, _lock and the instance's fields
    thread            \* thread[t]: where thread t is in ExaMCPClient()

clientVars == <<process, spawned, request_id, response_queue, tools_available>>
childVars == <<alive, inbox, pipe, errbuf, answeredInit, noise>>
callerVars == <<pc, ctx, nested, rid, result, ops>>
clientSide == <<cred, windows, clientVars, childVars, rd, callerVars>>
routerVars == <<typed, user_query, crew, returned>>
ledgerVars == <<dataset, ledger, out>>
fitVars == <<need, fit>>
filterVars == <<command, report>>
wrapperVars == <<listed, answer>>
constructVars == <<singleton, thread>>
toolVars == <<fitVars, filterVars, wrapperVars, constructVars>>
\* what find_best_instance, and what the filter, leave alone
notFit == <<clientSide, routerVars, ledgerVars, filterVars, wrapperVars, constructVars>>
notFilter == <<clientSide, routerVars, fitVars, wrapperVars, constructVars>>
notWrapper == <<clientSide, routerVars, ledgerVars, fitVars, filterVars, constructVars>>
notConstruct == <<clientSide, routerVars, ledgerVars, fitVars, filterVars, wrapperVars>>
vars == <<clientSide, routerVars, ledgerVars, toolVars>>

(***************************************************************************)
(* Messages: a JSON object read from a child's stdout.                     *)
(* id = 0: the object has no "id" (a notification).                        *)
(* kind: it carries "result", "error", or neither ("other").  Whether a    *)
(* reply carries "result" or "error" is read by nobody but the caller that *)
(* dequeues it: a reply travels as "reply" and the kind is drawn there.    *)
(* re: the method of the request it answers; src: the child that wrote it. *)
(***************************************************************************)
NoMsg == [id |-> -1, kind |-> "none", re |-> "none", src |-> None]
Reply(p, req) == [id |-> req.id, kind |-> "reply", re |-> req.method, src |-> p]
Notification(p) == [id |-> 0, kind |-> "other", re |-> "none", src |-> p]

\* the JSON objects the dequeued message m may be
Readings(m) ==
    IF m.kind = "reply"
    THEN {[m EXCEPT !.kind = k] : k \in {"result", "error"}}
    ELSE {m}

NoResult == [op |-> "none", val |-> "none", mid |-> -1, rid |-> -1, hs |-> FALSE]

\* self.process and self.process.poll() is None
ProcessRunning == process # None /\ alive[process]

(***************************************************************************)
(* State after construction: ExaMCPClient.__init__                         *)
(***************************************************************************)
InitClient ==
    /\ cred \in BOOLEAN
    /\ windows \in BOOLEAN
    /\ process = None
    /\ spawned = 0
    /\ alive = [p \in Pids |-> FALSE]
    /\ request_id = 0
    /\ response_queue = <<>>
    /\ tools_available = None
    /\ inbox = [p \in Pids |-> {}]
    /\ pipe = [p \in Pids |-> <<>>]
    /\ errbuf = 0
    /\ answeredInit = FALSE
    /\ noise = 0
    /\ rd = [k \in Pids |-> [st |-> "none", on |-> None]]
    /\ pc = [c \in Callers |-> "idle"]
    /\ ctx = [c \in Callers |-> "none"]
    /\ nested = [c \in Callers |-> FALSE]
    /\ rid = [c \in Callers |-> -1]
    /\ result = [c \in Callers |-> NoResult]
    /\ ops = 0

\* no query typed, no crew built
InitRouter ==
    /\ typed = <<>>
    /\ user_query = <<>>
    /\ crew = [chain |-> "none", tasks |-> <<>>]
    /\ returned = [response |-> "none", used_mcp |-> FALSE, tools_used |-> <<>>]

\* no ledger tool has run
InitLedger ==
    /\ dataset = [readable |-> TRUE, rows |-> <<>>]
    /\ ledger = [exists |-> FALSE, lines |-> <<>>]
    /\ out = [op |-> "none", kind |-> "none"]

\* find_best_instance not yet called
InitFit ==
    /\ need = [cpu200 |-> 200, ram200 |-> 200]
    /\ fit = [op |-> "none"]

\* the filter not yet called
InitFilter ==
    /\ command = <<>>
    /\ report = [op |-> "none"]

\* neither search nor crawl called, no operation discovered
InitWrapper ==
    /\ listed = <<>>
    /\ answer = [op |-> "none"]

\* the class as defined: no instance, the lock free
InitConstruct ==
    /\ singleton = [instance |-> 0, lock |-> "free", initialized |-> "unset",
                    process |-> 0, request_id |-> 0, tools_available |-> 0]
    /\ thread = [t \in Threads |-> [pc |-> "call", got |-> 0]]

InitTools == InitFit /\ InitFilter /\ InitWrapper /\ InitConstruct

Init ==
    /\ InitClient
    /\ InitRouter
    /\ InitLedger
    /\ InitTools

(***************************************************************************)
(* Entering and leaving an operation.  Return and Continue assign the      *)
(* caller's pc, ctx, nested, rid and result; the actions assign the        *)
(* client's variables before they use them, since Return reads the state   *)
(* the operation leaves.                                                   *)
(***************************************************************************)
\* caller c, idle, invokes start() or call_tool()
Invoke(c) ==
    /\ pc[c] = "idle"
    /\ ops < MaxOps
    /\ ops' = ops + 1

\* the operation op returns val; m is the message val was taken from and q
\* the request id val answers
Return(c, op, val, m, q) ==
    /\ pc' = [pc EXCEPT ![c] = "idle"]
    /\ ctx' = [ctx EXCEPT ![c] = "none"]
    /\ nested' = [nested EXCEPT ![c] = FALSE]
    /\ rid' = [rid EXCEPT ![c] = -1]
    /\ result' = [result EXCEPT ![c] =
           [op |-> op, val |-> val, mid |-> m.id, rid |-> q,
            hs |-> process' # None /\ answeredInit']]

\* the operation goes on at label, in or before the _send_and_wait x
Continue(c, label, x, n) ==
    /\ pc' = [pc EXCEPT ![c] = label]
    /\ ctx' = [ctx EXCEPT ![c] = x]
    /\ nested' = [nested EXCEPT ![c] = n]
    /\ rid' = [rid EXCEPT ![c] = -1]
    /\ result' = [result EXCEPT ![c] = NoResult]

\* start() returns ok, to call_tool() when it was entered from there (n)
StartReturns(c, n, ok) ==
    IF n
    THEN IF ok
         THEN Continue(c, "sw_send", "call", TRUE)
         ELSE Return(c, "call", "error_start", NoMsg, -1)
    ELSE Return(c, "start", IF ok THEN "true" ELSE "false", NoMsg, -1)

\* call_tool() maps the response of _send_and_wait to its return value
CallToolResult(r) ==
    IF r = NoMsg THEN "error_timeout"
    ELSE IF r.kind = "result" THEN "result"
    ELSE IF r.kind = "error" THEN "error_remote"
    ELSE "raw"

\* tools_response and "tools" in tools_response.get("result", {})
ListsTools(r) == r # NoMsg /\ r.kind = "result" /\ r.re = "tools/list"

\* _send_and_wait, which sent request q (-1: none), returned r (NoMsg: None)
\* to the place that called it
AfterWait(c, r, q) ==
    CASE ctx[c] = "init" ->
            /\ UNCHANGED tools_available
            /\ Continue(c, IF r = NoMsg THEN "st_log" ELSE "st_notify", "none", nested[c])
      [] ctx[c] = "list" ->
            /\ tools_available' = IF ListsTools(r) THEN r.src ELSE tools_available
            /\ StartReturns(c, nested[c], TRUE)
      [] OTHER ->
            /\ UNCHANGED tools_available
            /\ Return(c, "call", CallToolResult(r), r, q)

MethodOf(c) ==
    CASE ctx[c] = "init" -> "initialize"
      [] ctx[c] = "list" -> "tools/list"
      [] OTHER -> "tools/call"

(***************************************************************************)
(* ExaMCPClient.start                                                      *)
(***************************************************************************)
\* the credential check left out
NoCredential_Skipped == FALSE

\* not exa_key
NoCredential == ~cred

\* the checks start() opens with; n: it was entered from call_tool()
StartCheck(c, n) ==
    /\ UNCHANGED <<cred, windows, clientVars, childVars, rd>>
    /\ IF ProcessRunning
       THEN StartReturns(c, n, TRUE)
       ELSE IF NoCredential
            THEN StartReturns(c, n, FALSE)
            ELSE Continue(c, "st_spawn", "none", n)

\* start() called by the caller
Start(c) ==
    /\ Invoke(c)
    /\ StartCheck(c, FALSE)

\* start() called by call_tool()
StartFromCallTool(c) ==
    /\ pc[c] = "st_check"
    /\ UNCHANGED ops
    /\ StartCheck(c, TRUE)

StartSpawn(c) ==
    /\ pc[c] = "st_spawn"
    /\ \/ \* Popen succeeds; the reader thread is started
          LET p == spawned + 1 IN
          /\ spawned' = p
          /\ process' = p
          /\ errbuf' = 0
          /\ answeredInit' = FALSE
          /\ alive' = [alive EXCEPT ![p] = TRUE]
          /\ rd' = [rd EXCEPT ![p] = [st |-> "read", on |-> p]]
          /\ Continue(c, "sw_send", "init", nested[c])
       \/ \* Popen raises (npx is not installed): except Exception
          /\ UNCHANGED <<spawned, process, errbuf, answeredInit, alive, rd>>
          /\ Continue(c, "st_log", "none", nested[c])
    /\ UNCHANGED <<cred, windows, request_id, response_queue, tools_available,
                   inbox, pipe, noise, ops>>

\* _send_notification("notifications/initialized"): no reply is expected
StartNotify(c) ==
    /\ pc[c] = "st_notify"
    /\ Continue(c, "sw_send", "list", nested[c])
    /\ UNCHANGED <<cred, windows, clientVars, childVars, rd, ops>>

\* select.select([self.process.stderr], [], [], 0.1) reports it readable
StderrReady == errbuf > 0 \/ ~alive[process]

LogStderr(c) ==
    /\ pc[c] = "st_log"
    /\ UNCHANGED <<cred, windows, clientVars, childVars, rd, ops>>
    /\ IF process = None \/ windows \/ ~StderrReady
       THEN StartReturns(c, nested[c], FALSE)
       ELSE Continue(c, "st_logread", "none", nested[c])

\* self.process.stderr.read(1000) returns: 1000 characters are there, or EOF
StderrReadReturns == errbuf = 2 \/ ~alive[process]

LogStderrRead(c) ==
    /\ pc[c] = "st_logread"
    /\ UNCHANGED <<cred, windows, clientVars, alive, inbox, pipe,
                   answeredInit, noise, rd, ops>>
    /\ IF process = None
       THEN UNCHANGED errbuf
       ELSE /\ StderrReadReturns
            /\ errbuf' = 0
    /\ StartReturns(c, nested[c], FALSE)

(***************************************************************************)
(* ExaMCPClient._send_and_wait, _send_request                              *)
(***************************************************************************)
\* the queue is cleared, then _send_request
SendRequest(c) ==
    /\ pc[c] = "sw_send"
    /\ response_queue' = <<>>
    /\ UNCHANGED <<cred, windows, process, spawned, alive, pipe, errbuf,
                   answeredInit, noise, rd, ops>>
    /\ IF ~ProcessRunning
       THEN \* req_id = -1: _send_and_wait returns None
            /\ UNCHANGED <<request_id, inbox>>
            /\ AfterWait(c, NoMsg, -1)
       ELSE LET req == [id |-> request_id + 1, method |-> MethodOf(c)] IN
            /\ request_id' = request_id + 1
            /\ inbox' = [inbox EXCEPT ![process] = @ \cup {req}]
            /\ rid' = [rid EXCEPT ![c] = request_id + 1]
            /\ pc' = [pc EXCEPT ![c] = "sw_wait"]
            /\ UNCHANGED <<ctx, nested, result, tools_available>>

\* self.response_queue.get(timeout=timeout)
SendAndWaitGet(c) ==
    /\ pc[c] = "sw_wait"
    /\ UNCHANGED <<cred, windows, process, spawned, request_id,
                   childVars, rd, ops>>
    /\ \/ /\ response_queue # <<>>
          /\ response_queue' = Tail(response_queue)
          /\ \E r \in Readings(Head(response_queue)) : AfterWait(c, r, rid[c])
       \/ \* queue.Empty after the timeout
          /\ response_queue = <<>>
          /\ UNCHANGED response_queue
          /\ AfterWait(c, NoMsg, rid[c])

(***************************************************************************)
(* ExaMCPClient.call_tool                                                  *)
(***************************************************************************)
CallTool(c) ==
    /\ Invoke(c)
    /\ UNCHANGED <<cred, windows, clientVars, childVars, rd>>
    /\ IF ProcessRunning
       THEN Continue(c, "sw_send", "call", FALSE)
       ELSE Continue(c, "st_check", "none", TRUE)

(***************************************************************************)
(* ExaMCPClient.stop                                                       *)
(***************************************************************************)
Stop(c) ==
    /\ pc[c] = "idle"
    /\ UNCHANGED <<cred, windows, clientVars, childVars, rd, ops>>
    /\ IF process = None
       THEN Return(c, "stop", "none", NoMsg, -1)
       ELSE Continue(c, "sp_term", "none", FALSE)

\* self.process.terminate(); self.process.wait(timeout=5)
StopTerminate(c) ==
    /\ pc[c] = "sp_term"
    /\ \/ \* the child is gone when wait() returns
          /\ process # None
          /\ alive' = [alive EXCEPT ![process] = FALSE]
          /\ inbox' = [inbox EXCEPT ![process] = {}]
       \/ \* wait() raises TimeoutExpired: the child is still running
          /\ process # None
          /\ alive[process]
          /\ UNCHANGED <<alive, inbox>>
       \/ \* self.process is None by now: AttributeError
          /\ process = None
          /\ UNCHANGED <<alive, inbox>>
    /\ Continue(c, "sp_release", "none", FALSE)
    /\ UNCHANGED <<cred, windows, clientVars, pipe, errbuf, answeredInit,
                   noise, rd, ops>>

\* the handle is not released
StopRelease_KeepsHandle(c) ==
    /\ pc[c] = "sp_release"
    /\ UNCHANGED <<cred, windows, clientVars, childVars, rd, ops>>
    /\ Return(c, "stop", "none", NoMsg, -1)

StopRelease(c) ==
    /\ pc[c] = "sp_release"
    /\ process' = None
    /\ errbuf' = 0
    /\ answeredInit' = FALSE
    /\ UNCHANGED <<cred, windows, spawned, request_id, response_queue,
                   tools_available, alive, inbox, pipe, noise, rd, ops>>
    /\ Return(c, "stop", "none", NoMsg, -1)

(***************************************************************************)
(* ExaMCPClient._read_responses: the reader thread started with child k.   *)
(* rd[k].st = "read": blocked in self.process.stdout.readline() on the     *)
(* stream of child rd[k].on.                                               *)
(***************************************************************************)
\* while self.process and self.process.poll() is None: readline() on self.process.stdout
ReaderLoop == IF ProcessRunning
              THEN [st |-> "read", on |-> process]
              ELSE [st |-> "done", on |-> None]

ReadResponses(k) ==
    /\ rd[k].st = "read"
    /\ LET p == rd[k].on IN
       \/ /\ pipe[p] # <<>>
          /\ pipe' = [pipe EXCEPT ![p] = Tail(@)]
          /\ response_queue' = Append(response_queue, Head(pipe[p]))
       \/ \* EOF: readline() returns ""
          /\ pipe[p] = <<>>
          /\ ~alive[p]
          /\ UNCHANGED <<pipe, response_queue>>
    /\ rd' = [rd EXCEPT ![k] = ReaderLoop]
    /\ UNCHANGED <<cred, windows, process, spawned, request_id, tools_available,
                   alive, inbox, errbuf, answeredInit, noise, callerVars>>

(***************************************************************************)
(* The child process (npx exa-mcp-server): the environment                 *)
(***************************************************************************)
ChildReply(p) ==
    /\ alive[p]
    /\ Len(pipe[p]) < MaxPipe
    /\ \E req \in inbox[p] :
          /\ inbox' = [inbox EXCEPT ![p] = @ \ {req}]
          /\ pipe' = [pipe EXCEPT ![p] = Append(@, Reply(p, req))]
          /\ answeredInit' = (answeredInit \/ (p = process /\ req.method = "initialize"))
    /\ UNCHANGED <<cred, windows, clientVars, alive, errbuf, noise, rd, callerVars>>

\* a notification: a JSON object without "id"
ChildNotify(p) ==
    /\ alive[p]
    /\ Len(pipe[p]) < MaxPipe
    /\ noise < MaxNoise
    /\ noise' = noise + 1
    /\ pipe' = [pipe EXCEPT ![p] = Append(@, Notification(p))]
    /\ UNCHANGED <<cred, windows, clientVars, alive, inbox, errbuf,
                   answeredInit, rd, callerVars>>

\* a line that does not start with "{" or does not parse: the reader that
\* reads it puts nothing in the queue and loops (lines 128-133)
ChildMalformedLine(p) ==
    /\ alive[p]
    /\ \E k \in Pids : rd[k].st = "read" /\ rd[k].on = p
    /\ UNCHANGED clientSide

\* stderr output: only _log_stderr ever looks at it
ChildStderr(p) ==
    /\ alive[p]
    /\ p = process
    /\ \E c \in Callers : pc[c] \in {"st_log", "st_logread"}
    /\ errbuf < 2
    /\ errbuf' = errbuf + 1
    /\ UNCHANGED <<cred, windows, clientVars, alive, inbox, pipe,
                   answeredInit, noise, rd, callerVars>>

ChildExit(p) ==
    /\ alive[p]
    /\ alive' = [alive EXCEPT ![p] = FALSE]
    /\ inbox' = [inbox EXCEPT ![p] = {}]
    /\ UNCHANGED <<cred, windows, clientVars, pipe, errbuf,
                   answeredInit, noise, rd, callerVars>>

ClientNext ==
    \/ \E c \in Callers :
          \/ Start(c) \/ StartFromCallTool(c) \/ StartSpawn(c) \/ StartNotify(c)
          \/ LogStderr(c) \/ LogStderrRead(c)
          \/ SendRequest(c) \/ SendAndWaitGet(c)
          \/ CallTool(c)
          \/ Stop(c) \/ StopTerminate(c) \/ StopRelease(c)
    \/ \E k \in Pids : ReadResponses(k)
    \/ \E p \in Pids : ChildReply(p) \/ ChildNotify(p) \/ ChildMalformedLine(p) \/ ChildStderr(p) \/ ChildExit(p)

Next == ClientNext /\ UNCHANGED <<routerVars, ledgerVars, toolVars>>

Spec == Init /\ [][Next]_vars

(***************************************************************************)
(* The pipeline router: src/src/crew.py                                    *)
(* Text is a sequence of one-character strings, so that lower() and the    *)
(* substring test kw in q are computed and not assumed.                    *)
(***************************************************************************)
LowerCase == <<"a", "b", "c", "d", "e", "f", "g", "h", "i", "j", "k", "l", "m",
               "n", "o", "p", "q", "r", "s", "t", "u", "v", "w", "x", "y", "z">>
UpperCase == <<"A", "B", "C", "D", "E", "F", "G", "H", "I", "J", "K", "L", "M",
               "N", "O", "P", "Q", "R", "S", "T", "U", "V", "W", "X", "Y", "Z">>

\* the phrases queries are made of
Phrases == <<
    <<"c", "a", "l", "c", "u", "l", "a", "t", "e", " ", "t", "o", "t", "a", "l", " ", "s", "a", "v", "i", "n", "g", "s">>,
    <<"s", "h", "o", "w", " ", "m", "e", " ", "t", "o", "p", " ", "v", "m", "s">>,
    <<"w", "h", "i", "c", "h", " ", "c", "l", "u", "s", "t", "e", "r">>,
    <<"p", "r", "e", "m", "i", "u", "m", " ", "v", "m">>,
    <<"w", "e", "b", " ", "p", "r", "i", "c", "e">>,
    <<"l", "i", "s", "t", " ", "i", "d", "l", "e", " ", "v", "m", "s">>,
    <<"s", "t", "o", "p">>,
    <<"a", "w", "s">> >>
Casings == {"lower", "upper", "title"}

ToUpperChar(ch) ==
    IF \E i \in 1..26 : LowerCase[i] = ch
    THEN UpperCase[CHOOSE i \in 1..26 : LowerCase[i] = ch]
    ELSE ch

\* the phrase t as the user types it in casing m
Cased(t, m) ==
    [i \in 1..Len(t) |->
        IF m = "upper" \/ (m = "title" /\ i = 1) THEN ToUpperChar(t[i]) ELSE t[i]]

RECURSIVE Text(_)
\* the query text of the typed tokens, joined by single spaces
Text(tokens) ==
    IF tokens = <<>> THEN <<>>
    ELSE LET last == tokens[Len(tokens)]
             front == SubSeq(tokens, 1, Len(tokens) - 1) IN
         (IF front = <<>> THEN <<>> ELSE Text(front) \o <<" ">>)
            \o Cased(Phrases[last.phrase], last.casing)

\* str.lower() of one character
LowerChar(ch) ==
    IF \E i \in 1..26 : UpperCase[i] = ch
    THEN LowerCase[CHOOSE i \in 1..26 : UpperCase[i] = ch]
    ELSE ch

\* lower() forgotten
Lower_Identity(t) == t

\* user_query.lower()
Lower(t) == [i \in 1..Len(t) |-> LowerChar(t[i])]

\* kw in q
In(kw, q) ==
    \E i \in 1..(Len(q) - Len(kw) + 1) : SubSeq(q, i, i + Len(kw) - 1) = kw

\* any(kw in q for kw in kws)
AnyKeywordIn(kws, q) == \E kw \in kws : In(kw, q)

RoiKeywords ==
    {<<"c", "a", "l", "c", "u", "l", "a", "t", "e">>,
     <<"e", "x", "a", "c", "t">>,
     <<"t", "o", "t", "a", "l">>,
     <<"s", "a", "v", "i", "n", "g", "s">>,
     <<"r", "o", "i">>,
     <<"f", "i", "n", "a", "n", "c", "i", "a", "l">>,
     <<"d", "o", "w", "n", "s", "i", "z", "e", " ", "a", "l", "l">>}

ExampleKeywords ==
    {<<"e", "x", "a", "m", "p", "l", "e">>,
     <<"r", "e", "c", "o", "m", "m", "e", "n", "d">>,
     <<"s", "p", "e", "c", "i", "f", "i", "c">>,
     <<"p", "i", "c", "k">>,
     <<"s", "h", "o", "w", " ", "m", "e">>,
     <<"t", "o", "p">>}

ClusterKeywords ==
    {<<"c", "l", "u", "s", "t", "e", "r">>,
     <<"d", "i", "s", "t", "r", "i", "b", "u", "t", "i", "o", "n">>,
     <<"w", "o", "r", "s", "t", " ", "o", "f", "f", "e", "n", "d", "e", "r">>,
     <<"w", "h", "i", "c", "h", " ", "c", "l", "u", "s", "t", "e", "r">>}

PremiumKeywords ==
    {<<"p", "r", "e", "m", "i", "u", "m">>,
     <<"m", "-", "s", "e", "r", "i", "e", "s">>,
     <<"l", "-", "s", "e", "r", "i", "e", "s">>,
     <<"e", "x", "p", "e", "n", "s", "i", "v", "e">>}

PricingKeywords ==
    {<<"p", "r", "i", "c", "i", "n", "g">>,
     <<"p", "r", "i", "c", "e">>,
     <<"s", "e", "a", "r", "c", "h">>,
     <<"w", "e", "b">>,
     <<"c", "u", "r", "r", "e", "n", "t">>,
     <<"m", "a", "r", "k", "e", "t">>,
     <<"a", "w", "s">>,
     <<"g", "c", "p">>}

\* a Task: its agent and, as context, the places in the returned list of the
\* tasks whose outputs it is given
\* and, as names, the tool names its description holds
Task(agent, context, names) == [agent |-> agent, context |-> context, names |-> names]

_roi_tasks ==
    [chain |-> "roi",
     tasks |-> <<Task("auditor", <<>>, {"filter_underutilized_vms"}),
                 Task("architect", <<1>>, {"batch_analyze_and_log"}),
                 Task("cfo", <<1, 2>>, {"filter_underutilized_vms"})>>]

\* the architect's task is given the financier's output
_example_tasks_forward ==
    [chain |-> "example",
     tasks |-> <<Task("auditor", <<>>, {"filter_underutilized_vms"}),
                 Task("architect", <<3>>, {"analyze_vm_semantically", "batch_analyze_and_log"}),
                 Task("cfo", <<2>>, {"calculate_total_savings"})>>]

_example_tasks ==
    [chain |-> "example",
     tasks |-> <<Task("auditor", <<>>, {"filter_underutilized_vms"}),
                 Task("architect", <<1>>, {"analyze_vm_semantically", "batch_analyze_and_log"}),
                 Task("cfo", <<2>>, {"calculate_total_savings"})>>]

_cluster_tasks ==
    [chain |-> "cluster",
     tasks |-> <<Task("auditor", <<>>, {"filter_underutilized_vms"}),
                 Task("architect", <<1>>, {}),
                 Task("cfo", <<2>>, {"calculate_total_savings"})>>]

_premium_tasks ==
    [chain |-> "premium",
     tasks |-> <<Task("auditor", <<>>, {"filter_underutilized_vms"}),
                 Task("architect", <<1>>, {}),
                 Task("cfo", <<2>>, {"calculate_total_savings"})>>]

_discovery_tasks ==
    [chain |-> "discovery",
     tasks |-> <<Task("auditor", <<>>, {"filter_underutilized_vms"}),
                 Task("architect", <<1>>, {"batch_analyze_and_log"}),
                 Task("cfo", <<1, 2>>, {"filter_underutilized_vms", "calculate_total_savings"})>>]

_pricing_tasks ==
    [chain |-> "pricing",
     tasks |-> <<Task("auditor", <<>>, {"filter_underutilized_vms"}),
                 Task("architect", <<1>>, {"exa_web_search"}),
                 Task("cfo", <<2>>, {"calculate_total_savings"})>>]

_create_tasks_for_query(q) ==
    IF AnyKeywordIn(RoiKeywords, q) THEN _roi_tasks
    ELSE IF AnyKeywordIn(ExampleKeywords, q) THEN _example_tasks
    ELSE IF AnyKeywordIn(ClusterKeywords, q) THEN _cluster_tasks
    ELSE IF AnyKeywordIn(PremiumKeywords, q) THEN _premium_tasks
    ELSE IF AnyKeywordIn(PricingKeywords, q) THEN _pricing_tasks
    ELSE _discovery_tasks

\* no crew has been built for the query
NoCrew == [chain |-> "none", tasks |-> <<>>]

\* run_crew_analysis has not returned for the query
NoReturn == [response |-> "none", used_mcp |-> FALSE, tools_used |-> <<>>]

\* the user types one more phrase of the query
TypePhrase ==
    /\ crew = NoCrew
    /\ returned = NoReturn
    /\ Len(typed) < MaxPhrases
    /\ \E ph \in 1..Len(Phrases), m \in Casings :
          typed' = Append(typed, [phrase |-> ph, casing |-> m])
    /\ user_query' = Text(typed')
    /\ UNCHANGED <<crew, returned, clientSide, ledgerVars, toolVars>>

\* the tools of the three agents
auditor_tools == {"filter_underutilized_vms"}

architect_tools(use_web_search) ==
    {"analyze_vm_semantically", "batch_analyze_and_log"}
        \cup (IF use_web_search THEN {"exa_web_search"} ELSE {})

\* the financier is also given the filter tool
cfo_tools_and_filter == {"calculate_total_savings", "filter_underutilized_vms"}

cfo_tools == {"calculate_total_savings"}

\* the Crew create_chat_crew(uq, use_web_search) returns
Crew(uq, use_web_search) ==
    LET q == Lower(uq)
        built == _create_tasks_for_query(q) IN
    [chain |-> built.chain,
     tasks |-> built.tasks,
     agents |-> [auditor |-> auditor_tools,
                 architect |-> architect_tools(use_web_search),
                 cfo |-> cfo_tools]]

create_chat_crew(use_web_search) ==
    /\ crew = NoCrew
    /\ returned.response = "none"
    /\ user_query # <<>>
    /\ crew' = Crew(user_query, use_web_search)
    /\ UNCHANGED <<typed, user_query, returned, clientSide, ledgerVars, toolVars>>

\* create_crew(user_query)
create_crew == create_chat_crew(FALSE)

SearchKeywords ==
    {<<"p", "r", "i", "c", "i", "n", "g">>,
     <<"p", "r", "i", "c", "e">>,
     <<"s", "e", "a", "r", "c", "h">>,
     <<"w", "e", "b">>,
     <<"c", "u", "r", "r", "e", "n", "t">>,
     <<"m", "a", "r", "k", "e", "t">>}

SavingsKeywords ==
    {<<"s", "a", "v", "i", "n", "g", "s">>,
     <<"c", "a", "l", "c", "u", "l", "a", "t", "e">>,
     <<"t", "o", "t", "a", "l">>,
     <<"r", "o", "i">>}

\* the credential is not looked at
needs_search_any_credential(uq) == AnyKeywordIn(SearchKeywords, Lower(uq))

\* needs_search, as a truth value
needs_search(uq) == AnyKeywordIn(SearchKeywords, Lower(uq)) /\ cred

\* tools_used of a run that completes
tools_used(uq) ==
    <<"filter_underutilized_vms">>
        \o (IF AnyKeywordIn(SavingsKeywords, Lower(uq))
            THEN <<"batch_analyze_and_log", "calculate_total_savings">> ELSE <<>>)
        \o (IF needs_search(uq) THEN <<"exa_web_search">> ELSE <<>>)

run_crew_analysis ==
    /\ crew = NoCrew
    /\ returned = NoReturn
    /\ user_query # <<>>
    /\ \/ \* create_chat_crew raises
          /\ crew' = crew
          /\ returned' = [response |-> "error", used_mcp |-> FALSE, tools_used |-> <<>>]
       \/ \* crew.kickoff() raises
          /\ crew' = Crew(user_query, needs_search(user_query))
          /\ returned' = [response |-> "error", used_mcp |-> FALSE, tools_used |-> <<>>]
       \/ /\ crew' = Crew(user_query, needs_search(user_query))
          /\ returned' = [response |-> "answer",
                          used_mcp |-> needs_search(user_query),
                          tools_used |-> tools_used(user_query)]
    /\ UNCHANGED <<typed, user_query, clientSide, ledgerVars, toolVars>>

\* the next query
NewQuery ==
    /\ crew # NoCrew \/ returned # NoReturn
    /\ typed' = <<>>
    /\ user_query' = <<>>
    /\ crew' = NoCrew
    /\ returned' = NoReturn
    /\ UNCHANGED <<clientSide, ledgerVars, toolVars>>

RouterNext == TypePhrase \/ create_chat_crew(FALSE) \/ NewQuery

\* the router reads neither the credential nor the platform of the client
RouterInit == Init /\ cred /\ ~windows

RouterSpec == RouterInit /\ [][RouterNext]_vars

AppNext == TypePhrase \/ run_crew_analysis \/ create_crew \/ NewQuery

\* the application on a host with or without the search credential
AppInit == Init /\ ~windows

AppSpec == AppInit /\ [][AppNext]_vars


(***************************************************************************)
(* The recommendation ledger: src/src/tools/batch_tool.py and              *)
(* src/src/tools/savings_tool.py.  Costs are in cents.                     *)
(***************************************************************************)
\* the dataset file cannot be read (missing, or lacking a column)
Missing == [readable |-> FALSE, rows |-> <<>>]

\* the ledger file does not exist
Absent == [exists |-> FALSE, lines |-> <<>>]

\* the catalog, in the order of the dict; the two modules hold the same one
AZURE_PRICING == <<
    [name |-> "Standard_B1s",     cpu |-> 1,  ram |-> 1,  cost |-> 759],
    [name |-> "Standard_B2s",     cpu |-> 2,  ram |-> 4,  cost |-> 3037],
    [name |-> "Standard_B4ms",    cpu |-> 4,  ram |-> 16, cost |-> 6074],
    [name |-> "Standard_D2s_v3",  cpu |-> 2,  ram |-> 8,  cost |-> 7008],
    [name |-> "Standard_D4s_v3",  cpu |-> 4,  ram |-> 16, cost |-> 14016],
    [name |-> "Standard_D8s_v3",  cpu |-> 8,  ram |-> 32, cost |-> 28032],
    [name |-> "Standard_D16s_v3", cpu |-> 16, ram |-> 64, cost |-> 56064],
    [name |-> "Standard_E2s_v3",  cpu |-> 2,  ram |-> 16, cost |-> 9198],
    [name |-> "Standard_E4s_v3",  cpu |-> 4,  ram |-> 32, cost |-> 18396],
    [name |-> "Standard_E8s_v3",  cpu |-> 8,  ram |-> 64, cost |-> 36792],
    [name |-> "Standard_F2s_v2",  cpu |-> 2,  ram |-> 4,  cost |-> 6132],
    [name |-> "Standard_F4s_v2",  cpu |-> 4,  ram |-> 8,  cost |-> 12264],
    [name |-> "Standard_F8s_v2",  cpu |-> 8,  ram |-> 16, cost |-> 24528] >>

\* the records datasets are made of
VMs == {
    [vm_id |-> "vm-a", current_size |-> "Standard_D4s_v3", cpu_cores |-> 4, ram_gb |-> 16,
     avg_cpu_usage_percent |-> 10, avg_ram_usage_percent |-> 10, monthly_cost_usd |-> 14016],
    [vm_id |-> "vm-c", current_size |-> "Standard_M64", cpu_cores |-> 64, ram_gb |-> 256,
     avg_cpu_usage_percent |-> 25, avg_ram_usage_percent |-> 25, monthly_cost_usd |-> 300000],
    [vm_id |-> "vm-d", current_size |-> "Standard_B1s", cpu_cores |-> 1, ram_gb |-> 1,
     avg_cpu_usage_percent |-> 10, avg_ram_usage_percent |-> 10, monthly_cost_usd |-> 759],
    [vm_id |-> "vm-e", current_size |-> "Standard_D8s_v3", cpu_cores |-> 8, ram_gb |-> 32,
     avg_cpu_usage_percent |-> 20, avg_ram_usage_percent |-> 20, monthly_cost_usd |-> 28032],
    [vm_id |-> "vm-f", current_size |-> "Standard_D2s_v3", cpu_cores |-> 2, ram_gb |-> 8,
     avg_cpu_usage_percent |-> 29, avg_ram_usage_percent |-> 30, monthly_cost_usd |-> 7008] }

Datasets ==
    {Missing} \cup {[readable |-> TRUE, rows |-> rows] :
                        rows \in UNION {[1..n -> VMs] : n \in 0..MaxVMs}}

Max(a, b) == IF a >= b THEN a ELSE b

RECURSIVE Sum(_)
Sum(xs) == IF xs = <<>> THEN 0 ELSE Head(xs) + Sum(Tail(xs))

\* min_cpu = max(1, eff_cpu * 1.5), in two-hundredths of a core
min_cpu(vm) == Max(200, 3 * vm.cpu_cores * vm.avg_cpu_usage_percent)

\* min_ram = max(1, eff_ram * 1.5), in two-hundredths of a GB
min_ram(vm) == Max(200, 3 * vm.ram_gb * vm.avg_ram_usage_percent)

RECURSIVE BestFrom(_, _, _, _)
\* the loop of find_best_instance from entry i on; best is the place of
\* best_match in the catalog, 0 for None
BestFrom(i, best, cpu200, ram200) ==
    IF i > Len(AZURE_PRICING) THEN best
    ELSE LET specs == AZURE_PRICING[i] IN
         IF /\ 200 * specs.cpu >= cpu200
            /\ 200 * specs.ram >= ram200
            /\ (best = 0 \/ specs.cost < AZURE_PRICING[best].cost)
         THEN BestFrom(i + 1, i, cpu200, ram200)
         ELSE BestFrom(i + 1, best, cpu200, ram200)

\* no recommendation
NoInstance == [name |-> "None", cost |-> -1]

\* find_best_instance of batch_tool.py
find_best_instance(cpu200, ram200) ==
    LET best == BestFrom(1, 0, cpu200, ram200) IN
    IF best # 0
    THEN [name |-> AZURE_PRICING[best].name, cost |-> AZURE_PRICING[best].cost]
    ELSE NoInstance

\* find_best_instance of savings_tool.py
find_best_instance_savings(cpu200, ram200) ==
    LET best == BestFrom(1, 0, cpu200, ram200) IN
    IF best # 0
    THEN [name |-> AZURE_PRICING[best].name, cost |-> AZURE_PRICING[best].cost]
    ELSE [name |-> "Standard_B1s", cost |-> 759]

waste_mask(vm) == vm.avg_cpu_usage_percent < 30 /\ vm.avg_ram_usage_percent < 30

RECURSIVE InsertDesc(_, _)
\* vm put before the first record of the sorted vms that costs no more
InsertDesc(vm, vms) ==
    IF vms = <<>> THEN <<vm>>
    ELSE IF Head(vms).monthly_cost_usd <= vm.monthly_cost_usd THEN <<vm>> \o vms
    ELSE <<Head(vms)>> \o InsertDesc(vm, Tail(vms))

RECURSIVE sort_values(_)
\* sort_values('monthly_cost_usd', ascending=False)
sort_values(vms) ==
    IF vms = <<>> THEN <<>> ELSE InsertDesc(Head(vms), sort_values(Tail(vms)))

\* df[waste_mask].sort_values(...)
filtered(df) == sort_values(SelectSeq(df, waste_mask))

\* the header line of the ledger
HeaderLine ==
    [kind |-> "header",
     cols |-> <<"vm_id", "current_size", "current_cost",
                "recommended_size", "new_cost", "monthly_savings">>]

\* a row line of the ledger
Row(vm_id, current_size, current_cost, recommended_size, new_cost, monthly_savings) ==
    [kind |-> "row", vm_id |-> vm_id, current_size |-> current_size,
     current_cost |-> current_cost, recommended_size |-> recommended_size,
     new_cost |-> new_cost, monthly_savings |-> monthly_savings]

RECURSIVE BatchRows(_)
\* the rows BatchAnalyzeTool._run writes for the filtered records
BatchRows(vms) ==
    IF vms = <<>> THEN <<>>
    ELSE LET vm == Head(vms)
             rec == find_best_instance(min_cpu(vm), min_ram(vm)) IN
         (IF rec # NoInstance /\ rec.cost < vm.monthly_cost_usd
          THEN <<Row(vm.vm_id, vm.current_size, vm.monthly_cost_usd,
                     rec.name, rec.cost, vm.monthly_cost_usd - rec.cost)>>
          ELSE <<>>) \o BatchRows(Tail(vms))

RECURSIVE SavingsRows(_)
\* the rows _calculate_all_savings writes for the filtered records
SavingsRows(vms) ==
    IF vms = <<>> THEN <<>>
    ELSE LET vm == Head(vms)
             rec == find_best_instance_savings(min_cpu(vm), min_ram(vm)) IN
         (IF rec.cost < vm.monthly_cost_usd
          THEN <<Row(vm.vm_id, vm.current_size, vm.monthly_cost_usd,
                     rec.name, rec.cost, vm.monthly_cost_usd - rec.cost)>>
          ELSE <<>>) \o SavingsRows(Tail(vms))

\* report_path.exists()
Exists(f) == f.exists

\* report_path.unlink()
Unlink(f) == Absent

\* the content of a file just opened in mode 'w'
OpenW(f) == [exists |-> TRUE, lines |-> <<>>]

\* the content of a file just opened in mode 'a'
OpenA(f) == [exists |-> TRUE, lines |-> f.lines]

\* writer.writerow for each of the lines
Write(f, lines) == [exists |-> f.exists, lines |-> f.lines \o lines]

\* the rows are appended to what the ledger held
ReportWritten_Appended(f, rows) ==
    Write(OpenA(f), (IF Exists(f) THEN <<>> ELSE <<HeaderLine>>) \o rows)

\* the ledger after it is unlinked if present, opened in mode 'w' and
\* written with the header and the rows
ReportWritten(f, rows) ==
    LET unlinked == IF Exists(f) THEN Unlink(f) ELSE f IN
    Write(OpenW(unlinked), <<HeaderLine>> \o rows)

\* pd.read_csv(report_path): the rows after the header
read_csv(f) == Tail(f.lines)

\* the column col of the rows
Column(rows, col) == [i \in 1..Len(rows) |-> rows[i][col]]

\* run_all(): BatchAnalyzeTool._run
run_all ==
    /\ IF dataset = Missing
       THEN \* the ledger was unlinked before the dataset was read
            /\ ledger' = (IF Exists(ledger) THEN Unlink(ledger) ELSE ledger)
            /\ out' = [op |-> "run_all", kind |-> "error", existed |-> Exists(ledger)]
       ELSE LET rows == BatchRows(filtered(dataset.rows)) IN
            /\ ledger' = ReportWritten(ledger, rows)
            /\ out' = [op |-> "run_all", kind |-> "ok", existed |-> Exists(ledger),
                       processed |-> Len(rows),
                       total_underutilized |-> Len(filtered(dataset.rows)),
                       total_savings |-> Sum(Column(rows, "monthly_savings"))]
    /\ UNCHANGED <<dataset, clientSide, routerVars, toolVars>>

\* the percentage total_savings / total_current * 100 as a fraction, 0 when
\* total_current is not positive
savings_pct(total_savings, total_current) ==
    IF total_current > 0 THEN <<total_savings * 100, total_current>> ELSE <<0, 1>>

\* the annual savings are the monthly savings
Totals_AnnualIsMonthly(op, rows, regenerated) ==
    [op |-> op, kind |-> "ok", regenerated |-> regenerated,
     analyzed |-> Len(rows),
     total_current |-> Sum(Column(rows, "current_cost")),
     total_new |-> Sum(Column(rows, "new_cost")),
     total_savings |-> Sum(Column(rows, "monthly_savings")),
     annual_savings |-> Sum(Column(rows, "monthly_savings")),
     savings_pct |-> savings_pct(Sum(Column(rows, "monthly_savings")),
                                 Sum(Column(rows, "current_cost")))]

\* the figures _calculate_all_savings and _financial_summary report
Totals(op, rows, regenerated) ==
    [op |-> op, kind |-> "ok", regenerated |-> regenerated,
     analyzed |-> Len(rows),
     total_current |-> Sum(Column(rows, "current_cost")),
     total_new |-> Sum(Column(rows, "new_cost")),
     total_savings |-> Sum(Column(rows, "monthly_savings")),
     annual_savings |-> Sum(Column(rows, "monthly_savings")) * 12,
     savings_pct |-> savings_pct(Sum(Column(rows, "monthly_savings")),
                                 Sum(Column(rows, "current_cost")))]

\* SavingsCalculatorTool._calculate_all_savings, called for command cmd
_calculate_all_savings(cmd) ==
    IF dataset = Missing
    THEN \* read_csv raises before the ledger is touched
         /\ ledger' = ledger
         /\ out' = [op |-> cmd, kind |-> "error", regenerated |-> TRUE]
    ELSE LET rows == SavingsRows(filtered(dataset.rows)) IN
         /\ ledger' = ReportWritten(ledger, rows)
         /\ out' = Totals(cmd, rows, TRUE)

\* SavingsCalculatorTool._financial_summary
_financial_summary(df) ==
    /\ ledger' = ledger
    /\ out' = Totals("summary", df, FALSE)

\* SavingsCalculatorTool._run(command), command one of summary, calculate_all
calculate_total_savings(cmd) ==
    /\ IF cmd = "calculate_all" THEN _calculate_all_savings(cmd)
       ELSE IF ~Exists(ledger) THEN _calculate_all_savings(cmd)
       ELSE IF Len(read_csv(ledger)) = 0 THEN _calculate_all_savings(cmd)
       ELSE _financial_summary(read_csv(ledger))
    /\ UNCHANGED <<dataset, clientSide, routerVars, toolVars>>

\* summary()
summary == calculate_total_savings("summary")

\* the recommendations given to log_one(), split at the commas
Recommendations == {
    <<"bad", "input">>,
    <<"vm-1", "Standard_B1s", "7.59", "Standard_B1s", " 7.59">>,
    <<"vm-1", "Standard_D2s_v3", "70.08", "Standard_B1s", "7.59">>,
    <<"vm-1", "Standard_B1s", "7.59", "Standard_D2s_v3", "70.08">>,
    <<"vm-1", "Standard_B1s", "abc", "Standard_B1s", "7.59">>,
    <<"vm-1", "Standard_B1s", "7.59", "Standard_B1s", "">>,
    <<"vm-1", "Standard_B1s", "7.59", "Standard_B1s", "7.59", "0">> }

\* p.strip()
strip(p) == IF p = " 7.59" THEN "7.59" ELSE p

\* float(x): the cents it parses to, or ValueError
float(x) ==
    CASE x = "7.59" -> [ok |-> TRUE, val |-> 759]
      [] x = "70.08" -> [ok |-> TRUE, val |-> 7008]
      [] x = "0" -> [ok |-> TRUE, val |-> 0]
      [] OTHER -> [ok |-> FALSE, val |-> 0]

\* the header is written whether or not the file existed
WritesHeader_Always(file_exists) == TRUE

\* if not file_exists: the header is written
WritesHeader(file_exists) == ~file_exists

\* the file is opened for appending before the costs are parsed
Logged_OpensFirst(f, recommendation) ==
    LET parts == [i \in 1..Len(recommendation) |-> strip(recommendation[i])] IN
    IF Len(parts) # 5
    THEN [ledger |-> f, kind |-> "error", savings |-> 0]
    ELSE IF ~float(parts[3]).ok \/ ~float(parts[5]).ok
    THEN [ledger |-> OpenA(f), kind |-> "error", savings |-> 0]
    ELSE [ledger |-> Write(OpenA(f),
                           (IF WritesHeader(Exists(f)) THEN <<HeaderLine>> ELSE <<>>)
                           \o <<Row(parts[1], parts[2], float(parts[3]).val, parts[4],
                                    float(parts[5]).val,
                                    float(parts[3]).val - float(parts[5]).val)>>),
          kind |-> "ok", savings |-> float(parts[3]).val - float(parts[5]).val]

\* SavingsLoggerTool._run: the ledger it leaves and what it returns
Logged(f, recommendation) ==
    LET parts == [i \in 1..Len(recommendation) |-> strip(recommendation[i])] IN
    IF Len(parts) # 5
    THEN [ledger |-> f, kind |-> "error", savings |-> 0]
    ELSE IF ~float(parts[3]).ok \/ ~float(parts[5]).ok
    THEN [ledger |-> f, kind |-> "error", savings |-> 0]
    ELSE [ledger |-> Write(OpenA(f),
                           (IF WritesHeader(Exists(f)) THEN <<HeaderLine>> ELSE <<>>)
                           \o <<Row(parts[1], parts[2], float(parts[3]).val, parts[4],
                                    float(parts[5]).val,
                                    float(parts[3]).val - float(parts[5]).val)>>),
          kind |-> "ok", savings |-> float(parts[3]).val - float(parts[5]).val]

\* log_one(recommendation): SavingsLoggerTool._run
log_one(recommendation) ==
    /\ Len(ledger.lines) < MaxLines
    /\ ledger' = Logged(ledger, recommendation).ledger
    /\ out' = [op |-> "log_one", kind |-> Logged(ledger, recommendation).kind,
               existed |-> Exists(ledger),
               savings |-> Logged(ledger, recommendation).savings]
    /\ UNCHANGED <<dataset, clientSide, routerVars, toolVars>>

\* clear(): ClearReportTool._run
clear ==
    /\ ledger' = (IF Exists(ledger) THEN Unlink(ledger) ELSE ledger)
    /\ out' = [op |-> "clear", kind |-> "ok", existed |-> Exists(ledger)]
    /\ UNCHANGED <<dataset, clientSide, routerVars, toolVars>>

LedgerNext ==
    \/ run_all
    \/ summary
    \/ calculate_total_savings("calculate_all")
    \/ \E recommendation \in Recommendations : log_one(recommendation)
    \/ clear

\* the tools on any dataset, the ledger not yet written
LedgerInit ==
    /\ InitClient /\ cred /\ ~windows
    /\ InitRouter
    /\ dataset \in Datasets
    /\ ledger = Absent
    /\ out = [op |-> "none", kind |-> "none"]
    /\ InitTools

LedgerSpec == LedgerInit /\ [][LedgerNext]_vars

(***************************************************************************)
(* The three copies of find_best_instance, on any requirement.             *)
(***************************************************************************)
\* find_best_instance of llm_sense_tool.py: the entry's cost stands for its
\* specs
find_best_instance_sense(cpu200, ram200) ==
    LET best == BestFrom(1, 0, cpu200, ram200) IN
    IF best # 0
    THEN [name |-> AZURE_PRICING[best].name, cost |-> AZURE_PRICING[best].cost]
    ELSE [name |-> "Standard_B1s", cost |-> AZURE_PRICING[1].cost]

\* requirements, in two-hundredths: at and just above the sizes of the catalog
CpuNeeds == {200, 201, 400, 401, 800, 801, 1600, 1601, 3200, 3201, 4800}
RamNeeds == {200, 201, 800, 801, 1600, 1601, 3200, 3201, 6400, 6401, 12800,
             12801, 19200}
Needs == [cpu200 : CpuNeeds, ram200 : RamNeeds]

\* batch_tool.find_best_instance(min_cpu, min_ram)
FitBatch ==
    /\ fit' = [op |-> "batch",
               found |-> find_best_instance(need.cpu200, need.ram200)]
    /\ UNCHANGED <<need, notFit>>

\* savings_tool.find_best_instance(min_cpu, min_ram)
FitSavings ==
    /\ fit' = [op |-> "savings",
               found |-> find_best_instance_savings(need.cpu200, need.ram200)]
    /\ UNCHANGED <<need, notFit>>

\* llm_sense_tool.find_best_instance(min_cpu, min_ram)
FitSense ==
    /\ fit' = [op |-> "sense",
               found |-> find_best_instance_sense(need.cpu200, need.ram200)]
    /\ UNCHANGED <<need, notFit>>

FitNext == FitBatch \/ FitSavings \/ FitSense

FitInit ==
    /\ InitClient /\ cred /\ ~windows
    /\ InitRouter
    /\ InitLedger
    /\ need \in Needs
    /\ fit = [op |-> "none"]
    /\ InitFilter
    /\ InitWrapper
    /\ InitConstruct

FitSpec == FitInit /\ [][FitNext]_vars

(***************************************************************************)
(* The waste filter: src/src/tools/filter_tool.py.  A command is a         *)
(* sequence of one-character strings, so that strip(), lower(),            *)
(* startswith(), split() and int() are computed.                           *)
(***************************************************************************)
\* the commands given to the filter
Commands == {
    <<"a", "l", "l">>,
    <<"z", "o", "m", "b", "i", "e">>,
    <<"n", "e", "a", "r", "_", "z", "e", "r", "o">>,
    <<"p", "r", "e", "m", "i", "u", "m">>,
    <<"c", "l", "u", "s", "t", "e", "r", "_", "a", "n", "a", "l", "y", "s", "i", "s">>,
    <<"t", "o", "p", "_", "1">>,
    <<"t", "o", "p", "_", "2">>,
    <<" ", "T", "o", "p", "_", "1", " ">>,
    <<"t", "o", "p", "_", "0">>,
    <<"t", "o", "p", "_", "-", "1">>,
    <<"t", "o", "p", "_", "a", "b", "c">>,
    <<"t", "o", "p", "_", "1", ".", "5">>,
    <<"t", "o", "p", "_">>,
    <<"t", "o", "p">>,
    <<"b", "o", "g", "u", "s">>,
    <<>> }

Whitespace == {" ", "\t", "\n"}

RECURSIVE lstrip(_)
lstrip(t) == IF t # <<>> /\ Head(t) \in Whitespace THEN lstrip(Tail(t)) ELSE t

RECURSIVE rstrip(_)
rstrip(t) ==
    IF t # <<>> /\ t[Len(t)] \in Whitespace
    THEN rstrip(SubSeq(t, 1, Len(t) - 1))
    ELSE t

\* command.strip()
strip_text(t) == rstrip(lstrip(t))

\* cmd.startswith(prefix)
startswith(t, prefix) ==
    Len(t) >= Len(prefix) /\ SubSeq(t, 1, Len(prefix)) = prefix

RECURSIVE split(_, _)
\* cmd.split(sep), sep one character
split(t, sep) ==
    IF \A i \in 1..Len(t) : t[i] # sep THEN <<t>>
    ELSE LET i == CHOOSE i \in 1..Len(t) :
                      t[i] = sep /\ \A j \in 1..(i - 1) : t[j] # sep IN
         <<SubSeq(t, 1, i - 1)>> \o split(SubSeq(t, i + 1, Len(t)), sep)

Digits == <<"0", "1", "2", "3", "4", "5", "6", "7", "8", "9">>

IsDigit(ch) == \E i \in 1..10 : Digits[i] = ch

DigitValue(ch) == (CHOOSE i \in 1..10 : Digits[i] = ch) - 1

RECURSIVE Decimal(_)
\* the number the digits t denote
Decimal(t) ==
    IF t = <<>> THEN 0
    ELSE 10 * Decimal(SubSeq(t, 1, Len(t) - 1)) + DigitValue(t[Len(t)])

\* int(x): surrounding whitespace, an optional sign, then digits; anything
\* else is a ValueError
int(x) ==
    LET t == strip_text(x)
        signed == t # <<>> /\ Head(t) \in {"+", "-"}
        digits == IF signed THEN Tail(t) ELSE t IN
    IF digits # <<>> /\ \A i \in 1..Len(digits) : IsDigit(digits[i])
    THEN [ok |-> TRUE,
          val |-> IF signed /\ Head(t) = "-" THEN 0 - Decimal(digits)
                  ELSE Decimal(digits)]
    ELSE [ok |-> FALSE, val |-> 0]

\* DataFrame.head(n): the first n rows, all but the last -n for n < 0
head(rows, n) ==
    IF n >= 0
    THEN SubSeq(rows, 1, IF n < Len(rows) THEN n ELSE Len(rows))
    ELSE SubSeq(rows, 1, Max(Len(rows) + n, 0))

\* except Exception as e: return f"Error: {str(e)}"
ErrorText == [kind |-> "error"]

\* the text of a report: its title and the records it lists
Report(title, shown) == [kind |-> "report", title |-> title, shown |-> shown]

\* the else branch: the list of commands
Usage == [kind |-> "usage"]

near_zero_mask(vm) == vm.avg_cpu_usage_percent < 10 /\ vm.avg_ram_usage_percent < 10

\* _summary_report: len(filtered)/len(df) raises on no records
_summary_report(df, rows) ==
    IF Len(df) = 0 THEN ErrorText ELSE Report("summary", head(rows, 5))

\* _near_zero_report
_near_zero_report(df, near_zero) ==
    Report("near_zero", head(sort_values(near_zero), 5))

\* _premium_report: no record here is of the M or the L series but vm-c
_premium_report(df, rows) ==
    Report("premium",
           head(SelectSeq(df, LAMBDA vm : vm.current_size = "Standard_M64"
                                            /\ near_zero_mask(vm)), 5))

\* _cluster_report: cluster_stats.index[0] raises on no records
_cluster_report(rows) ==
    IF Len(rows) = 0 THEN ErrorText ELSE Report("cluster", <<>>)

\* _top_n_report
_top_n_report(rows, n) == Report(<<"top", n>>, head(rows, n))

\* the body of WasteFilterTool._run, the try block included
FilterResult(df, c) ==
    IF ~df.readable THEN ErrorText
    ELSE LET cmd == Lower(strip_text(c))
             rows == filtered(df.rows) IN
         IF cmd \in {<<"a", "l", "l">>, <<"z", "o", "m", "b", "i", "e">>}
         THEN _summary_report(df.rows, rows)
         ELSE IF cmd = <<"n", "e", "a", "r", "_", "z", "e", "r", "o">>
         THEN _near_zero_report(df.rows, SelectSeq(df.rows, near_zero_mask))
         ELSE IF cmd \in {<<"p", "r", "e", "m", "i", "u", "m">>,
                          <<"m", "_", "s", "e", "r", "i", "e", "s">>,
                          <<"l", "_", "s", "e", "r", "i", "e", "s">>}
         THEN _premium_report(df.rows, rows)
         ELSE IF cmd = <<"c", "l", "u", "s", "t", "e", "r", "_",
                         "a", "n", "a", "l", "y", "s", "i", "s">>
         THEN _cluster_report(rows)
         ELSE IF startswith(cmd, <<"t", "o", "p", "_">>)
         THEN LET n == int(split(cmd, "_")[2]) IN
              IF n.ok THEN _top_n_report(rows, n.val) ELSE ErrorText
         ELSE Usage

\* classify(): WasteFilterTool._run(command)
classify ==
    /\ report.op = "none"
    /\ report' = [op |-> "classify", text |-> FilterResult(dataset, command)]
    /\ UNCHANGED <<command, dataset, ledger, out, notFilter>>

\* the tool is given another command
NewCommand ==
    /\ report.op # "none"
    /\ command' \in Commands
    /\ report' = [op |-> "none"]
    /\ UNCHANGED <<dataset, ledger, out, notFilter>>

FilterNext == classify \/ NewCommand

FilterInit ==
    /\ InitClient /\ cred /\ ~windows
    /\ InitRouter
    /\ dataset \in Datasets
    /\ ledger = Absent
    /\ out = [op |-> "none", kind |-> "none"]
    /\ InitFit
    /\ command \in Commands
    /\ report = [op |-> "none"]
    /\ InitWrapper
    /\ InitConstruct

FilterSpec == FilterInit /\ [][FilterNext]_vars

(***************************************************************************)
(* The search and crawl tools over the client: ExaSearchTool._run and      *)
(* ExaCrawlTool._run of src/src/tools/exa_search_tool.py.  What start()    *)
(* and call_tool() return is an input here.                                *)
(***************************************************************************)
\* names a server may report in tools/list
ToolNames == {"web_search_exa", "search", "crawl", "get_code_context_exa"}

\* the lists get_available_tools() may return
ToolLists == UNION {[1..n -> ToolNames] : n \in 0..MaxTools}

\* what call_tool() may return: {"error": ...}; response["result"], which is
\* any JSON value (a dict with or without "content", null, a number, a
\* string, a list); or the response itself when it has neither key
Replies == {
    [type |-> "dict", keys |-> {"error"}],
    [type |-> "dict", keys |-> {"content"}],
    [type |-> "dict", keys |-> {"jsonrpc", "id"}],
    [type |-> "null", keys |-> {}],
    [type |-> "number", keys |-> {}],
    [type |-> "string", keys |-> {}],
    [type |-> "list", keys |-> {}] }

SearchAliases == <<"web_search_exa", "search", "exa_search", "webSearch">>
CrawlAliases == <<"crawling_exa", "crawl", "getContents", "extract">>

\* name in tools
Listed(name, tools) == \E i \in 1..Len(tools) : tools[i] = name

\* for possible_name in aliases: if possible_name in tools: break
\* the first such alias, "" (None) when there is none
FirstAlias(aliases, tools) ==
    IF \E i \in 1..Len(aliases) : Listed(aliases[i], tools)
    THEN aliases[CHOOSE i \in 1..Len(aliases) :
                    /\ Listed(aliases[i], tools)
                    /\ \A j \in 1..(i - 1) : ~Listed(aliases[j], tools)]
    ELSE ""

\* ExaSearchTool._run, lines 256-267
SearchToolName(tools) ==
    LET tool_name == FirstAlias(SearchAliases, tools) IN
    IF tool_name = "" /\ tools # <<>> THEN tools[1]
    ELSE IF tool_name = "" THEN "web_search_exa"
    ELSE tool_name

\* ExaCrawlTool._run, lines 327-335
CrawlToolName(tools) ==
    LET tool_name == FirstAlias(CrawlAliases, tools) IN
    IF tool_name = "" THEN "crawling_exa" ELSE tool_name

\* "error" in result: TypeError on None and on a number
ErrorInRaises(reply) == reply.type \in {"null", "number"}

\* what the tool operation did: returned text, or raised
Answered(op, tool_name, reply, kind) ==
    [op |-> op, tools |-> listed, tool_name |-> tool_name, reply |-> reply,
     kind |-> kind]

NoReply == [type |-> "none", keys |-> {}]

\* the lines both tools share: the credential test, start(), the choice of
\* the name, call_tool() and the test "error" in result
RunTool(op, tool_name) ==
    \/ /\ ~cred
       /\ answer' = Answered(op, "", NoReply, "text")
    \/ /\ cred
       /\ \* mcp.start() returned False
          answer' = Answered(op, "", NoReply, "text")
    \/ /\ cred
       /\ \E reply \in Replies :
             answer' = Answered(op, tool_name, reply,
                                IF ErrorInRaises(reply) THEN "raises" ELSE "text")

\* search(query): ExaSearchTool._run
search ==
    /\ RunTool("search", SearchToolName(listed))
    /\ UNCHANGED <<listed, notWrapper>>

\* crawl(url): ExaCrawlTool._run
crawl ==
    /\ RunTool("crawl", CrawlToolName(listed))
    /\ UNCHANGED <<listed, notWrapper>>

\* a start() in between discovers other operations
Rediscover ==
    /\ cred
    /\ listed' \in ToolLists
    /\ UNCHANGED <<answer, notWrapper>>

WrapperNext == search \/ crawl \/ Rediscover

WrapperInit ==
    /\ InitClient /\ ~windows
    /\ InitRouter
    /\ InitLedger
    /\ InitFit
    /\ InitFilter
    /\ InitWrapper
    /\ InitConstruct

WrapperSpec == WrapperInit /\ [][WrapperNext]_vars

(***************************************************************************)
(* Construction of the one client: ExaMCPClient.__new__ and __init__,      *)
(* called by get_mcp_client() from several threads.  singleton.instance    *)
(* is 0 for None; singleton.initialized is "unset" while the instance has  *)
(* no _initialized attribute, then "false" or "true".                      *)
(***************************************************************************)
\* thread t goes to label, holding the instance got
Goes(t, label, got) == thread' = [thread EXCEPT ![t] = [pc |-> label, got |-> got]]

\* __new__: if cls._instance is None, outside the lock
NewCheck(t) ==
    /\ thread[t].pc = "call"
    /\ IF singleton.instance = 0
       THEN Goes(t, "new_lock", 0)
       ELSE Goes(t, "init_check", singleton.instance)
    /\ UNCHANGED <<singleton, notConstruct>>

\* with cls._lock: if cls._instance is None: cls._instance = super().__new__(cls)
NewLocked(t) ==
    /\ thread[t].pc = "new_lock"
    /\ singleton.lock = "free"
    /\ IF singleton.instance = 0
       THEN /\ singleton' = [singleton EXCEPT !.lock = t, !.instance = 1]
            /\ Goes(t, "new_flag", 0)
       ELSE /\ UNCHANGED singleton
            /\ Goes(t, "init_check", singleton.instance)
    /\ UNCHANGED notConstruct

\* cls._instance._initialized = False; the lock is released; return
NewFlag(t) ==
    /\ thread[t].pc = "new_flag"
    /\ singleton' = [singleton EXCEPT !.initialized = "false", !.lock = "free"]
    /\ Goes(t, "init_check", singleton.instance)
    /\ UNCHANGED notConstruct

\* __init__: if self._initialized: return; AttributeError while the
\* attribute is not there
InitCheck(t) ==
    /\ thread[t].pc = "init_check"
    /\ Goes(t, CASE singleton.initialized = "unset" -> "raised"
                  [] singleton.initialized = "true" -> "done"
                  [] OTHER -> "init_fields",
            thread[t].got)
    /\ UNCHANGED <<singleton, notConstruct>>

\* self.process = None ... self.tools_available = []
InitFields(t) ==
    /\ thread[t].pc = "init_fields"
    /\ singleton' = [singleton EXCEPT !.process = 0, !.request_id = 0,
                                       !.tools_available = 0]
    /\ Goes(t, "init_flag", thread[t].got)
    /\ UNCHANGED notConstruct

\* self._initialized = True
InitFlag(t) ==
    /\ thread[t].pc = "init_flag"
    /\ singleton' = [singleton EXCEPT !.initialized = "true"]
    /\ Goes(t, "done", thread[t].got)
    /\ UNCHANGED notConstruct

\* a thread that has the client uses it: a child is spawned, its tools are
\* listed, a request takes the next id
Use(t) ==
    /\ thread[t].pc = "done"
    /\ singleton.request_id < MaxUses
    /\ singleton' = [singleton EXCEPT !.process = 1, !.tools_available = 1,
                                       !.request_id = @ + 1]
    /\ UNCHANGED <<thread, notConstruct>>

ConstructNext ==
    \E t \in Threads :
        \/ NewCheck(t) \/ NewLocked(t) \/ NewFlag(t)
        \/ InitCheck(t) \/ InitFields(t) \/ InitFlag(t)
        \/ Use(t)

ConstructInit ==
    /\ InitClient /\ cred /\ ~windows
    /\ InitRouter
    /\ InitLedger
    /\ InitFit
    /\ InitFilter
    /\ InitWrapper
    /\ InitConstruct

ConstructSpec == ConstructInit /\ [][ConstructNext]_vars

\* the steps caller c takes inside an operation it has invoked
CallerStep(c) ==
    \/ StartFromCallTool(c) \/ StartSpawn(c) \/ StartNotify(c)
    \/ LogStderr(c) \/ LogStderrRead(c)
    \/ SendRequest(c) \/ SendAndWaitGet(c)
    \/ StopTerminate(c) \/ StopRelease(c)

\* caller c is inside call_tool()
InCallTool(c) == pc[c] # "idle" /\ (nested[c] \/ ctx[c] = "call")

\* caller c writes its tools/call request in this step
WritesToolsCall(c) == pc[c] = "sw_send" /\ ctx[c] = "call" /\ pc'[c] = "sw_wait"

(***************************************************************************)
(* The claims                                                              *)
(***************************************************************************)

\* C1: what call_tool() returns from a dequeued message is taken from the
\* message whose id is the request id of that call: never from a message
\* with another id or with no id.
C1_CallReturnsOwnResponse ==
    \A c \in Callers :
        (result[c].op = "call" /\ result[c].val \in {"result", "error_remote", "raw"})
            => result[c].mid = result[c].rid

\* C2: whenever start() returns true, the current child has answered an
\* initialize request.
C2_StartTrueIsReady ==
    \A c \in Callers :
        (result[c].op = "start" /\ result[c].val = "true") => result[c].hs

\* C3: a tools/call request is written only while the current child has
\* answered initialize, and a call_tool() whose start() fails returns the
\* error-tagged result without writing a request.
C3_ToolsCallOnlyWhenReady ==
    [][\A c \in Callers :
          /\ WritesToolsCall(c) => answeredInit
          /\ (nested[c] /\ pc[c] \in {"st_check", "st_log", "st_logread"} /\ pc'[c] = "idle")
                => (result'[c].val = "error_start" /\ inbox' = inbox)]_vars

\* C4: at most one child process spawned by the client is alive.
C4_AtMostOneChildAlive == Cardinality({p \in Pids : alive[p]}) <= 1

\* C5: with no credential, nothing is ever spawned: start() returns false,
\* call_tool() returns the error-tagged result and the session stays stopped.
C5_NoCredentialNoSpawn ==
    ~cred =>
        /\ spawned = 0
        /\ process = None
        /\ \A c \in Callers :
              /\ pc[c] \in {"idle", "st_check"}
              /\ result[c].op = "start" => result[c].val = "false"
              /\ result[c].op = "call" => result[c].val = "error_start"

\* both operations have run without a credential
C5_Witness ==
    /\ ~cred
    /\ ops >= 2
    /\ \E c \in Callers : result[c].op = "call" /\ result[c].val = "error_start"

\* C6: a call_tool() that found the child gone writes its tools/call request
\* only to a running child that has answered the initialize request of the
\* restart.
C6_RestartHandshakeBeforeCall ==
    [][\A c \in Callers :
          (WritesToolsCall(c) /\ nested[c]) => (ProcessRunning /\ answeredInit)]_vars

\* C7: call_tool() terminates whatever the child does: inside call_tool() the
\* caller's next step never waits without bound, and what it returns is a
\* result payload or an error-tagged result.
C7_CallToolTerminates ==
    \A c \in Callers :
        /\ InCallTool(c) => ENABLED CallerStep(c)
        /\ result[c].op = "call" =>
              result[c].val \in {"result", "error_remote", "error_timeout", "error_start"}

\* C8: stop() leaves no process handle; called with no handle, or after a
\* stop(), it changes nothing.
C8_StopSafe ==
    [][\A c \in Callers :
          /\ (pc[c] \in {"sp_term", "sp_release"} /\ pc'[c] = "idle")
                => (process' = None /\ result'[c].op = "stop")
          /\ (Stop(c) /\ (process = None \/ result[c].op = "stop"))
                => (pc'[c] = "idle" /\ UNCHANGED <<cred, windows, clientVars, childVars, rd>>)]_vars

\* stop() has returned after a child was spawned
C8_Witness ==
    \E c \in Callers : result[c].op = "stop" /\ pc[c] = "idle" /\ spawned > 0 /\ process = None

\* the letter a of a query is the letter b of a keyword, in either case
SameLetter(a, b) ==
    a = b \/ \E i \in 1..26 : LowerCase[i] = b /\ UpperCase[i] = a

\* keyword kw occurs in the text t, whatever the casing of t
OccursIn(kw, t) ==
    \E i \in 0..(Len(t) - Len(kw)) :
        \A j \in 1..Len(kw) : SameLetter(t[i + j], kw[j])

\* the chain of the first keyword set, in the order ROI, example, cluster,
\* premium, pricing, with a keyword occurring in t; discovery when none has
FirstKeywordSet(t) ==
    IF \E kw \in RoiKeywords : OccursIn(kw, t) THEN "roi"
    ELSE IF \E kw \in ExampleKeywords : OccursIn(kw, t) THEN "example"
    ELSE IF \E kw \in ClusterKeywords : OccursIn(kw, t) THEN "cluster"
    ELSE IF \E kw \in PremiumKeywords : OccursIn(kw, t) THEN "premium"
    ELSE IF \E kw \in PricingKeywords : OccursIn(kw, t) THEN "pricing"
    ELSE "discovery"

\* the typed phrases, each in the casing cs gives it
Recased(cs) ==
    [i \in 1..Len(typed) |-> [phrase |-> typed[i].phrase, casing |-> cs[i]]]

\* C9: the chain built for a query is the chain of the first keyword set, in
\* the order ROI, example, cluster, premium, pricing, that has a keyword
\* occurring in the query, the discovery chain when no set has one, and every
\* casing of the same query is given the same chain.
C9_RouteFirstKeywordSet ==
    crew # NoCrew =>
        /\ crew.chain = FirstKeywordSet(user_query)
        /\ \A cs \in [1..Len(typed) -> Casings] :
              _create_tasks_for_query(Lower(Text(Recased(cs)))).chain = crew.chain

\* a query typed with capitals, holding a cluster keyword and then a ROI
\* keyword, has been routed to the ROI chain
C9_Witness ==
    /\ crew.chain = "roi"
    /\ user_query # Lower(user_query)
    /\ AnyKeywordIn(ClusterKeywords, Lower(user_query))

\* C10: every chain built has exactly three stages, run by the auditor, the
\* architect and the financier in that order, and every dependency of a stage
\* is an earlier stage of the same chain.
C10_ThreeStagesBackwardDeps ==
    crew # NoCrew =>
        /\ Len(crew.tasks) = 3
        /\ crew.tasks[1].agent = "auditor"
        /\ crew.tasks[2].agent = "architect"
        /\ crew.tasks[3].agent = "cfo"
        /\ \A i \in 1..Len(crew.tasks) :
              \A k \in 1..Len(crew.tasks[i].context) :
                  crew.tasks[i].context[k] \in 1..(i - 1)

\* the example chain has been built, its financier stage depending on the
\* architect stage
C10_Witness ==
    /\ crew.chain = "example"
    /\ Len(crew.tasks) = 3
    /\ crew.tasks[3].context = <<2>>

\* the places in the chain of the tasks whose outputs task i is given
ContextOf(i) == {crew.tasks[i].context[k] : k \in 1..Len(crew.tasks[i].context)}

\* C11: in every chain built, the architect stage is given the auditor
\* stage's output and the financier stage is given both the auditor stage's
\* and the architect stage's outputs.
C11_ContextsComplete ==
    crew # NoCrew =>
        /\ 1 \in ContextOf(2)
        /\ {1, 2} \subseteq ContextOf(3)

\* C12: without the search credential, the architect of a crew built by
\* run_crew_analysis or create_crew does not hold the search tool, whichever
\* chain the query selects.
C12_NoCredentialNoSearchTool ==
    (~cred /\ crew # NoCrew) => "exa_web_search" \notin crew.agents.architect

\* without the credential, run_crew_analysis has answered a query that holds
\* a search keyword
C12_Witness ==
    /\ ~cred
    /\ crew # NoCrew
    /\ returned.response = "answer"
    /\ AnyKeywordIn(SearchKeywords, Lower(user_query))

\* C13: in every crew built the auditor holds only the filter tool, the
\* financier holds only the aggregation tool, and the search tool, when
\* attached, is held by the architect only.
C13_ToolsFixedPerRole ==
    crew # NoCrew =>
        /\ crew.agents.auditor = {"filter_underutilized_vms"}
        /\ crew.agents.cfo = {"calculate_total_savings"}
        /\ "exa_web_search" \notin crew.agents.auditor \cup crew.agents.cfo
        /\ crew.agents.architect \subseteq
              {"analyze_vm_semantically", "batch_analyze_and_log", "exa_web_search"}

\* a crew has been built with the search tool attached
C13_Witness ==
    /\ crew # NoCrew
    /\ "exa_web_search" \in crew.agents.architect

\* the tools stage i of the chain is told to use: those its description
\* names among the tools of its agent
Instructed(i) == crew.tasks[i].names \cap crew.agents[crew.tasks[i].agent]

\* the names in tools_used
UsedSet == {returned.tools_used[k] : k \in 1..Len(returned.tools_used)}

\* C14: when run_crew_analysis completes, tools_used holds the filter tool's
\* name, holds batch_analyze_and_log and calculate_total_savings exactly when
\* the architect and financier stages of the chain are told to use them, and
\* holds exa_web_search exactly when the search tool is attached.
C14_ToolsUsedAccurate ==
    returned.response = "answer" =>
        /\ "filter_underutilized_vms" \in UsedSet
        /\ "batch_analyze_and_log" \in UsedSet <=> "batch_analyze_and_log" \in Instructed(2)
        /\ "calculate_total_savings" \in UsedSet <=> "calculate_total_savings" \in Instructed(3)
        /\ "exa_web_search" \in UsedSet <=> "exa_web_search" \in crew.agents.architect

\* the ledger run_all() writes for the records vms: the header, then a row
\* for each underutilized record, dearest first, that a catalog entry fits
\* at a lower cost
LedgerOfRun(vms) ==
    [exists |-> TRUE, lines |-> <<HeaderLine>> \o BatchRows(filtered(vms))]

\* C15: the ledger run_all() leaves for a readable dataset depends on the
\* dataset only: whatever the ledger held before, it is the header and the
\* rows of this run, so a second run_all() on the same data leaves the same
\* content.
C15_RunAllIdempotent ==
    [][(run_all /\ dataset.readable) => ledger' = LedgerOfRun(dataset.rows)]_vars

\* run_all() has replaced a ledger that existed by one with rows
C15_Witness ==
    /\ out.op = "run_all"
    /\ out.kind = "ok"
    /\ out.existed
    /\ Len(ledger.lines) > 1

\* C16: every row of the ledger has monthly savings = current cost - new
\* cost and monthly savings > 0.
C16_RowsHavePositiveSavings ==
    \A i \in 1..Len(ledger.lines) :
        ledger.lines[i].kind = "row" =>
            /\ ledger.lines[i].monthly_savings
                  = ledger.lines[i].current_cost - ledger.lines[i].new_cost
            /\ ledger.lines[i].monthly_savings > 0

\* the ledger f has at least one row
HasRows(f) == f.exists /\ Len(f.lines) > 1

\* C17: summary() returns, and its figures agree with the ledger it leaves:
\* total_savings is the sum of the monthly_savings column and equals
\* total_current - total_new, annual_savings is 12 times it, and the
\* reduction is 0 when total_current is 0; on an absent or empty ledger it
\* first regenerates the ledger, and a ledger with rows it leaves as it was.
C17_SummaryConsistent ==
    [][summary =>
          /\ out'.kind \in {"ok", "error"}
          /\ (dataset.readable \/ HasRows(ledger)) => out'.kind = "ok"
          /\ out'.kind = "ok" =>
                /\ ledger'.exists
                /\ out'.total_savings = Sum(Column(Tail(ledger'.lines), "monthly_savings"))
                /\ out'.total_current = Sum(Column(Tail(ledger'.lines), "current_cost"))
                /\ out'.total_new = Sum(Column(Tail(ledger'.lines), "new_cost"))
                /\ out'.total_savings = out'.total_current - out'.total_new
                /\ out'.annual_savings = 12 * out'.total_savings
                /\ out'.total_current = 0 => out'.savings_pct[1] = 0
          /\ (~HasRows(ledger) /\ dataset.readable) => out'.regenerated
          /\ HasRows(ledger) => (ledger' = ledger /\ ~out'.regenerated)]_vars

\* summary() has reported on a ledger that holds a row of log_one()
C17_Witness ==
    /\ out.op = "summary"
    /\ out.kind = "ok"
    /\ ~out.regenerated
    /\ \E i \in 1..Len(ledger.lines) :
          ledger.lines[i].kind = "row" /\ ledger.lines[i].vm_id = "vm-1"

\* C18: the ledger summary() regenerates is the ledger run_all() writes for
\* the same dataset: a record no catalog entry fits is in neither.
C18_RegeneratedIsRunAll ==
    (out.op = "summary" /\ out.kind = "ok" /\ out.regenerated)
        => ledger = LedgerOfRun(dataset.rows)

\* the texts that are numbers
Numerals == {"7.59", " 7.59", "70.08", "0"}

\* the recommendation is not five fields with numbers as its costs
Invalid(recommendation) ==
    \/ Len(recommendation) # 5
    \/ recommendation[3] \notin Numerals
    \/ recommendation[5] \notin Numerals

\* C19: log_one() with other than five fields, or with a cost that is not a
\* number, returns an error and leaves the ledger as it was.
C19_InvalidLogLeavesLedger ==
    [][\A recommendation \in Recommendations :
          (log_one(recommendation) /\ Invalid(recommendation))
              => (out'.kind = "error" /\ ledger' = ledger)]_vars

\* log_one() has refused a recommendation, the ledger holding a row
C19_Witness ==
    /\ out.op = "log_one"
    /\ out.kind = "error"
    /\ HasRows(ledger)

\* the cents a numeral stands for
Cents(x) ==
    CASE x \in {"7.59", " 7.59"} -> 759
      [] x = "70.08" -> 7008
      [] x = "0" -> 0

\* the header lines among the lines
HeaderLines(lines) == {i \in 1..Len(lines) : lines[i].kind = "header"}

\* C20: log_one() with five valid fields, savings of 0 included, appends one
\* row with savings = current - new after the lines the ledger held, the
\* header before it only when the ledger did not exist; so a ledger that
\* exists has one header line, its first.
C20_ValidLogAppendsOneRow ==
    [][/\ \A recommendation \in Recommendations :
             (log_one(recommendation) /\ ~Invalid(recommendation)) =>
                 /\ out'.kind = "ok"
                 /\ ledger'.exists
                 /\ ledger'.lines =
                       (IF ledger.exists THEN ledger.lines ELSE <<HeaderLine>>)
                          \o <<Row(recommendation[1], recommendation[2],
                                   Cents(recommendation[3]), recommendation[4],
                                   Cents(recommendation[5]),
                                   Cents(recommendation[3]) - Cents(recommendation[5]))>>
       /\ ledger'.exists => HeaderLines(ledger'.lines) = {1}]_vars

\* log_one() has appended a row with savings of 0 to a ledger that held a row
C20_Witness ==
    /\ out.op = "log_one"
    /\ out.kind = "ok"
    /\ out.savings = 0
    /\ out.existed
    /\ Len(ledger.lines) >= 3

\* the catalog entries that meet the requirement r
Qualifying(r) ==
    {i \in 1..Len(AZURE_PRICING) :
        200 * AZURE_PRICING[i].cpu >= r.cpu200
            /\ 200 * AZURE_PRICING[i].ram >= r.ram200}

\* C21: every copy of find_best_instance returns "no fit" when no catalog
\* entry meets (min_cpu, min_ram), and otherwise an entry with CPU >= min_cpu
\* and RAM >= min_ram whose cost is minimal among those that qualify.
C21_BestFitQualifiesOrNoFit ==
    fit.op # "none" =>
        IF Qualifying(need) = {}
        THEN fit.found = NoInstance
        ELSE \E i \in Qualifying(need) :
                /\ fit.found.name = AZURE_PRICING[i].name
                /\ fit.found.cost = AZURE_PRICING[i].cost
                /\ \A j \in Qualifying(need) :
                      AZURE_PRICING[i].cost <= AZURE_PRICING[j].cost

\* the stripped, lowercased command is top_N with N a positive integer
PositiveTop(cmd) ==
    /\ startswith(cmd, <<"t", "o", "p", "_">>)
    /\ LET rest == SubSeq(cmd, 5, Len(cmd)) IN
          /\ rest # <<>>
          /\ \A i \in 1..Len(rest) : IsDigit(rest[i])
          /\ Decimal(rest) > 0

\* the modes the filter knows
Modes ==
    {<<"a", "l", "l">>, <<"z", "o", "m", "b", "i", "e">>,
     <<"n", "e", "a", "r", "_", "z", "e", "r", "o">>,
     <<"p", "r", "e", "m", "i", "u", "m">>,
     <<"m", "_", "s", "e", "r", "i", "e", "s">>,
     <<"l", "_", "s", "e", "r", "i", "e", "s">>,
     <<"c", "l", "u", "s", "t", "e", "r", "_", "a", "n", "a", "l", "y", "s", "i", "s">>}

\* C22: on a readable dataset, classify() with top_N where N is not a
\* positive integer (zero, negative, non-numeric, missing), or with a mode it
\* does not know, returns the usage message and no report.
C22_BadModeGetsUsage ==
    (/\ report.op = "classify"
     /\ dataset.readable
     /\ Lower(strip_text(command)) \notin Modes
     /\ ~PositiveTop(Lower(strip_text(command))))
        => report.text = Usage

\* C23: every tool operation returns text: search and crawl return text
\* whatever the client hands back, a null or non-dictionary result included.
C23_ToolsReturnText ==
    answer.op # "none" => answer.kind = "text"

\* the rule: a discovered name of the alias set, else the first discovered
\* name, else the default
ByRule(aliases, default, tools, tool_name) ==
    IF \E i \in 1..Len(aliases) : Listed(aliases[i], tools)
    THEN Listed(tool_name, tools)
            /\ \E i \in 1..Len(aliases) : aliases[i] = tool_name
    ELSE IF tools # <<>> THEN tool_name = tools[1]
    ELSE tool_name = default

\* C26: search and crawl choose the remote operation name by the same rule:
\* a discovered name in the operation's alias set, else the first
\* discovered name, else the hardcoded default.
C26_SameNamingRule ==
    /\ (answer.op = "search" /\ answer.tool_name # "")
          => ByRule(SearchAliases, "web_search_exa", answer.tools,
                    answer.tool_name)
    /\ (answer.op = "crawl" /\ answer.tool_name # "")
          => ByRule(CrawlAliases, "crawling_exa", answer.tools,
                    answer.tool_name)

\* caller c is in start(), past the wait for the reply to initialize
PastHandshake(c) ==
    \/ pc[c] = "st_notify"
    \/ ctx[c] = "list" /\ pc[c] \in {"sw_send", "sw_wait"}

\* C24: in a start() that spawned a child, the "initialized" notification
\* and the tools/list request are written only after the child has replied
\* to initialize; when the wait for that reply times out, start() returns
\* false and writes neither.
C24_HandshakeOrder ==
    [][\A c \in Callers :
          /\ PastHandshake(c)' => answeredInit'
          /\ (ctx[c] = "init" /\ pc[c] = "sw_wait" /\ response_queue = <<>>
                 /\ pc'[c] # "sw_wait")
                => pc'[c] = "st_log"
          /\ (pc[c] \in {"st_log", "st_logread"} /\ pc'[c] \notin {"st_log", "st_logread"})
                => /\ inbox' = inbox
                   /\ ~nested[c] => result'[c].val = "false"]_vars

\* caller c's wait for the reply to tools/list ends in this step
ListWaitEnds(c) ==
    ctx[c] = "list" /\ pc[c] \in {"sw_send", "sw_wait"} /\ ctx'[c] # "list"

\* C25: when the wait for tools/list of a start() that spawned a child ends,
\* the discovered list is the names the current child reported, or empty
\* when the request failed or timed out, and start() returns true.
C25_DiscoveredFromCurrentChild ==
    [][\A c \in Callers :
          ListWaitEnds(c) =>
              /\ tools_available' \in {None, process}
              /\ (pc[c] = "sw_send" \/ response_queue = <<>>)
                    => tools_available' = None
              /\ ~nested[c] => result'[c].val = "true"]_vars

\* C27: at most one reader thread reads the current child's output, and the
\* reader started with a child reads no other child's output.
C27_OneReaderPerChild ==
    /\ \A k \in Pids : rd[k].st = "read" => rd[k].on = k
    /\ Cardinality({k \in Pids : rd[k].st = "read" /\ rd[k].on = process}) <= 1

\* C28: a run_all() that fails because the dataset cannot be read returns
\* an error string and leaves the ledger exactly as it was.
C28_FailedRunLeavesLedger ==
    [][(~dataset.readable /\ out'.op = "run_all")
          => (out'.kind = "error" /\ ledger' = ledger)]_vars

\* C29: for every interleaving of first constructions, every caller obtains
\* the one instance, and no construction assigns the session fields once
\* the instance has been initialised.
C29_InitialisedOnce ==
    [][\A t \in Threads :
          /\ thread'[t].pc # "raised"
          /\ thread'[t].pc = "done" => thread'[t].got = singleton'.instance
          /\ (thread[t].pc = "init_fields" /\ thread'[t].pc = "init_flag")
                => singleton.initialized # "true"]_vars

\* C30: with the search credential, when run_crew_analysis builds the
\* pricing chain, the search tool is attached to the architect, and the
\* query holds a keyword of the search-gating set.
C30_PricingChainHasSearchTool ==
    (cred /\ returned.response # "none" /\ crew # NoCrew /\ crew.chain = "pricing")
        => /\ "exa_web_search" \in crew.agents.architect
           /\ AnyKeywordIn(SearchKeywords, Lower(user_query))

====
